---- MODULE Spec2Model ----
(***************************************************************************)
(* scripts/service_menu.py: the curses service menu (main, run_menu,       *)
(* draw_menu, _build_menu), the menu actions and the command runner        *)
(* (run_command).                                                          *)
(*                                                                         *)
(* The menu session is a state machine whose positions are the places      *)
(* where the code blocks: the getch of line 249 ("displaying"), the wait   *)
(* for the child process inside action() of line 261 ("running"), and the  *)
(* getch of line 263 ("ack").  Python indices are kept 0-based; a TLA+     *)
(* sequence is indexed from 1, so menu[current_row] is menu[current_row+1].*)
(***************************************************************************)
EXTENDS Integers, Sequences, FiniteSets

VARIABLES
    pc,           \* position of the program (see above)
    term,         \* the terminal device: "free" or "held" (curses mode)
    error,        \* the exception that left main, "none" if none did
    menu,         \* run_menu's local `menu`
    current_row,  \* run_menu's local `current_row`
    screen,       \* what the curses window shows
    key,          \* the last value getch returned, and the line that read it
    ninvoked,     \* how many times line 261 has called an action
    invoked,      \* the action line 261 called last, "none" before
    child,        \* <<argv>> while subprocess.run waits for a child, else <<>>
    status,       \* exit status of the last child that ended, -1 before
    output,       \* run_command's messages printed since the window was cleared
    results       \* runner specification: one record per run_command call

vars == <<pc, term, error, menu, current_row, screen, key, ninvoked, invoked,
          child, status, output, results>>

(***************************************************************************)
(* Bounds of the model.                                                    *)
(***************************************************************************)
\* Actions called in one menu session.
MaxInvocations == 2
\* run_command calls made by the caller in the runner specification.
MaxCalls == 3

(***************************************************************************)
(* Key codes.                                                              *)
(***************************************************************************)
KEY_UP == 259
KEY_DOWN == 258
KEY_ENTER == 343
NEWLINE == 10
ESC == 27
\* Two keys the loop has no branch for: ord("q") and curses.KEY_RESIZE.
OtherKeys == {113, 410}
Keys == {KEY_UP, KEY_DOWN, KEY_ENTER, NEWLINE, ESC} \cup OtherKeys

(***************************************************************************)
(* The command runner.                                                     *)
(***************************************************************************)
\* Executables the environment can start.
Installed == {"echo", "true", "false"}

\* Exit statuses a started command may end with: true(1) and false(1) are
\* fixed, echo(1) ends non-zero on a write error.
ExitStatuses(command) ==
    CASE command[1] = "true" -> {0}
      [] command[1] = "false" -> {1}
      [] OTHER -> {0, 1}

\* subprocess.run(command, ...) while starting the child: the exception it
\* raises, "none" when the child is started.
SpawnError(command) ==
    IF Len(command) = 0 THEN "IndexError"
    ELSE IF command[1] \notin Installed THEN "FileNotFoundError"
    ELSE "none"

\* subprocess.run(..., check=True) once the child has ended with status s.
CheckError(s) ==
    IF s # 0 THEN "CalledProcessError" ELSE "none"

CaughtNothing(exc) == FALSE

\* The except clause of run_command.
Caught(exc) == exc = "CalledProcessError"

OutcomeReraise(exc) == IF exc = "none" THEN "returned" ELSE "raised"

\* What run_command does with an exception of subprocess.run: "returned"
\* (none, or caught) or "raised" (propagated to the caller).
Outcome(exc) ==
    IF exc = "none" \/ Caught(exc) THEN "returned" ELSE "raised"

\* print(f"Command failed: {exc}"): the message names the command and the
\* exit status.
FailureMessage(command, s) ==
    [text |-> "Command failed", command |-> command, status |-> s]

\* What run_command prints for an exception of subprocess.run.
Printed(command, s, exc) ==
    IF exc # "none" /\ Caught(exc)
    THEN <<FailureMessage(command, s)>> ELSE <<>>

(***************************************************************************)
(* The menu.                                                               *)
(***************************************************************************)
Item(l, a) == [label |-> l, action |-> a]

_build_menu ==
    << Item("Generate TLS certificates", "generate_tls"),
       Item("Install Supabase extras", "setup_supabase_extras"),
       Item("Start Langfuse container", "start_langfuse"),
       Item("Start Neo4j container", "start_neo4j"),
       Item("Start Weaviate container", "start_weaviate"),
       Item("Start Qdrant container", "start_qdrant"),
       Item("Start PostgreSQL container", "start_postgres"),
       Item("Start pgvector container", "start_pgvector"),
       Item("Start Sentry container", "start_sentry"),
       Item("Start OpenHands container", "start_openhands"),
       Item("Start Archon container", "start_archon"),
       Item("Start Agent-Zero container", "start_agent_zero"),
       Item("Exit", "lambda") >>

\* The run_command calls a menu action makes: <<argv>>, or <<>> for the
\* Exit item's lambda: None.
ActionCommands(action) ==
    CASE action = "generate_tls" ->
            << <<"echo", "Generating TLS certificates...">> >>
      [] action = "setup_supabase_extras" ->
            << <<"echo", "Setting up Supabase extras...">> >>
      [] action = "start_langfuse" ->
            << <<"echo", "docker run -d --name langfuse langfuse/langfuse:latest">> >>
      [] action = "start_neo4j" ->
            << <<"echo", "docker run -d --name neo4j neo4j:latest">> >>
      [] action = "start_weaviate" ->
            << <<"echo", "docker run -d --name weaviate semitechnologies/weaviate:latest">> >>
      [] action = "start_qdrant" ->
            << <<"echo", "docker run -d --name qdrant qdrant/qdrant:latest">> >>
      [] action = "start_postgres" ->
            << <<"echo", "docker run -d --name postgres -e POSTGRES_PASSWORD=postgres postgres:latest">> >>
      [] action = "start_pgvector" ->
            << <<"echo", "docker run -d --name pgvector ankane/pgvector:latest">> >>
      [] action = "start_sentry" ->
            << <<"echo", "docker run -d --name sentry getsentry/sentry:latest">> >>
      [] action = "start_openhands" ->
            << <<"echo", "docker run -d --name openhands openhands/openhands:latest">> >>
      [] action = "start_archon" ->
            << <<"echo", "docker run -d --name archon archon/archon:latest">> >>
      [] action = "start_agent_zero" ->
            << <<"echo", "docker run -d --name agent_zero agentzero/agent-zero:latest">> >>
      [] OTHER -> <<>>

\* The three things the window shows.
Blank == [kind |-> "none", highlight |-> -1, label |-> ""]

draw_menu(selected_row_idx, m) ==
    [kind |-> "menu", highlight |-> selected_row_idx, label |-> ""]

RunningScreen(l) == [kind |-> "running", highlight |-> -1, label |-> l]

PromptScreen(l) == [kind |-> "prompt", highlight |-> -1, label |-> l]

SelectedFirst(m, row) == m[1]

\* menu[current_row]
Selected(m, row) == m[row + 1]

UpTakenNoFloor(k, row) == k = KEY_UP

DownTakenOffByOne(k, row, n) == k = KEY_DOWN /\ row < n

EnterTakenAlsoQ(k) == k \in {KEY_ENTER, NEWLINE, 113}

IsExitCaseSlip(l) == l = "exit"

EscTakenWrongCode(k) == k = 28

\* The conditions of the if/elif chain of the loop, in its order.
UpTaken(k, row) == k = KEY_UP /\ row > 0

DownTaken(k, row, n) == k = KEY_DOWN /\ row < n - 1

EnterTaken(k) == k \in {KEY_ENTER, NEWLINE}

IsExit(l) == l = "Exit"

EscTaken(k) == k = ESC

WrapperFinallyOnReturnOnly(how) == IF how = "none" THEN "free" ELSE "held"

\* curses.wrapper's finally clause: endwin() however run_menu ended
\* (`how` is the exception that ended it, "none" for a return).
WrapperFinally(how) == "free"

\* A value getch returned.
Read(line, k) == [at |-> line, code |-> k]

Init ==
    /\ pc = "start"
    /\ term = "free"
    /\ error = "none"
    /\ menu = <<>>
    /\ current_row = 0
    /\ screen = Blank
    /\ key = Read(0, -1)
    /\ ninvoked = 0
    /\ invoked = "none"
    /\ child = <<>>
    /\ status = -1
    /\ output = <<>>
    /\ results = <<>>

\* main: curses.wrapper initialises curses, then calls run_menu.
Main ==
    /\ pc = "start"
    /\ term' = "held"
    /\ pc' = "setup"
    /\ UNCHANGED <<error, menu, current_row, screen, key, ninvoked, invoked,
                   child, status, output, results>>

\* run_menu up to its first getch: the menu is built, row 0 is selected
\* and the first frame is drawn.
RunMenuEnter ==
    /\ pc = "setup"
    /\ menu' = _build_menu
    /\ current_row' = 0
    /\ screen' = draw_menu(0, _build_menu)
    /\ output' = <<>>
    /\ pc' = "displaying"
    /\ UNCHANGED <<term, error, key, ninvoked, invoked, child, status, results>>

\* run_menu ends by a break (exc = "none") or by the exception exc, and
\* curses.wrapper with it.
Leave(exc) ==
    /\ pc' = IF exc = "none" THEN "exited" ELSE "crashed"
    /\ error' = exc
    /\ term' = WrapperFinally(exc)

\* The selection is set, the loop draws the next frame and blocks again.
Move(row) ==
    /\ current_row' = row
    /\ screen' = draw_menu(row, menu)
    /\ output' = <<>>
    /\ UNCHANGED <<pc, term, error, menu, ninvoked, invoked, child, status,
                   results>>

\* Lines 258-263 for the selected item, up to the next place the code blocks.
Invoke(item) ==
    /\ ninvoked' = ninvoked + 1
    /\ invoked' = item.action
    /\ IF ActionCommands(item.action) = <<>>
       THEN \* the action returns at once: the prompt, then getch
            /\ screen' = PromptScreen(item.label)
            /\ output' = <<>>
            /\ pc' = "ack"
            /\ UNCHANGED <<term, error, child>>
       ELSE LET command == ActionCommands(item.action)[1]
                exc == SpawnError(command)
            IN IF exc = "none"
               THEN /\ screen' = RunningScreen(item.label)
                    /\ output' = <<>>
                    /\ child' = <<command>>
                    /\ pc' = "running"
                    /\ UNCHANGED <<term, error>>
               ELSE IF Outcome(exc) = "returned"
               THEN /\ screen' = PromptScreen(item.label)
                    /\ output' = Printed(command, -1, exc)
                    /\ pc' = "ack"
                    /\ UNCHANGED <<term, error, child>>
               ELSE /\ screen' = RunningScreen(item.label)
                    /\ output' = <<>>
                    /\ Leave(exc)
                    /\ UNCHANGED child
    /\ UNCHANGED <<menu, current_row, status, results>>

\* break
Break ==
    /\ Leave("none")
    /\ UNCHANGED <<menu, current_row, screen, ninvoked, invoked, child,
                   status, output, results>>

\* One iteration of the loop from its getch: the key is read and the
\* if/elif chain dispatches it.
Loop(k) ==
    /\ pc = "displaying"
    /\ key' = Read(249, k)
    /\ IF UpTaken(k, current_row) THEN Move(current_row - 1)
       ELSE IF DownTaken(k, current_row, Len(menu)) THEN Move(current_row + 1)
       ELSE IF EnterTaken(k)
       THEN IF IsExit(Selected(menu, current_row).label)
            THEN Break
            ELSE /\ ninvoked < MaxInvocations
                 /\ Invoke(Selected(menu, current_row))
       ELSE IF EscTaken(k) THEN Break
       ELSE Move(current_row)

\* The child of the running action ends: subprocess.run returns or raises,
\* run_command prints and returns (or raises), then the prompt is shown
\* and the code blocks in the getch of line 263.
ChildExit(s) ==
    /\ pc = "running"
    /\ child # <<>>
    /\ s \in ExitStatuses(child[1])
    /\ status' = s
    /\ output' = output \o Printed(child[1], s, CheckError(s))
    /\ child' = <<>>
    /\ IF Outcome(CheckError(s)) = "returned"
       THEN /\ screen' = PromptScreen(screen.label)
            /\ pc' = "ack"
            /\ UNCHANGED <<term, error>>
       ELSE /\ Leave(CheckError(s))
            /\ UNCHANGED screen
    /\ UNCHANGED <<menu, current_row, key, ninvoked, invoked, results>>

AcknowledgeInterprets(k) ==
    /\ pc = "ack"
    /\ key' = Read(263, k)
    /\ IF k = ESC
       THEN Break
       ELSE /\ screen' = draw_menu(current_row, menu)
            /\ output' = <<>>
            /\ pc' = "displaying"
            /\ UNCHANGED <<term, error, menu, current_row, ninvoked, invoked,
                           child, status, results>>

\* The getch of line 263: its value is dropped, the loop starts over and
\* draws the menu.
Acknowledge(k) ==
    /\ pc = "ack"
    /\ key' = Read(263, k)
    /\ screen' = draw_menu(current_row, menu)
    /\ output' = <<>>
    /\ pc' = "displaying"
    /\ UNCHANGED <<term, error, menu, current_row, ninvoked, invoked, child,
                   status, results>>

\* Ctrl-C: curses.wrapper sets cbreak mode, which leaves signals on, so
\* SIGINT raises KeyboardInterrupt wherever the loop blocks.
KeyboardInterrupt ==
    /\ pc \in {"displaying", "running", "ack"}
    /\ Leave("KeyboardInterrupt")
    /\ child' = <<>>
    /\ UNCHANGED <<menu, current_row, screen, key, ninvoked, invoked, status,
                   output, results>>

Next ==
    \/ Main
    \/ RunMenuEnter
    \/ \E k \in Keys : Loop(k)
    \/ \E s \in 0..1 : ChildExit(s)
    \/ \E k \in Keys : Acknowledge(k)
    \/ KeyboardInterrupt

Spec == Init /\ [][Next]_vars

(***************************************************************************)
(* The runner on its own: a caller applies run_command to argv lists.      *)
(***************************************************************************)
Commands ==
    { <<"true">>, <<"false">>, <<"echo", "hello">>, <<"no-such-command">>,
      <<>> }

Result(command, exc, how, s, printed) ==
    [command |-> command, exc |-> exc, how |-> how, status |-> s,
     printed |-> printed]

InitRunner ==
    /\ pc = "caller"
    /\ term = "free"
    /\ error = "none"
    /\ menu = <<>>
    /\ current_row = 0
    /\ screen = Blank
    /\ key = Read(0, -1)
    /\ ninvoked = 0
    /\ invoked = "none"
    /\ child = <<>>
    /\ status = -1
    /\ output = <<>>
    /\ results = <<>>

\* run_command(command) up to the wait for the child, or to its end when
\* no child is started.
CallRunCommand(command) ==
    /\ pc = "caller"
    /\ Len(results) < MaxCalls
    /\ LET exc == SpawnError(command)
       IN IF exc = "none"
          THEN /\ child' = <<command>>
               /\ pc' = "blocked"
               /\ UNCHANGED <<results, output>>
          ELSE /\ results' = Append(results,
                     Result(command, exc, Outcome(exc), -1,
                            Printed(command, -1, exc)))
               /\ output' = output \o Printed(command, -1, exc)
               /\ UNCHANGED <<pc, child>>
    /\ UNCHANGED <<term, error, menu, current_row, screen, key, ninvoked,
                   invoked, status>>

\* The child ends and run_command ends with it.
RunnerChildExit(s) ==
    /\ pc = "blocked"
    /\ s \in ExitStatuses(child[1])
    /\ LET exc == CheckError(s)
       IN /\ results' = Append(results,
                 Result(child[1], exc, Outcome(exc), s,
                        Printed(child[1], s, exc)))
          /\ output' = output \o Printed(child[1], s, exc)
    /\ status' = s
    /\ child' = <<>>
    /\ pc' = "caller"
    /\ UNCHANGED <<term, error, menu, current_row, screen, key, ninvoked,
                   invoked>>

NextRunner ==
    \/ \E command \in Commands : CallRunCommand(command)
    \/ \E s \in 0..1 : RunnerChildExit(s)

SpecRunner == InitRunner /\ [][NextRunner]_vars

(***************************************************************************)
(* Properties.  A step that leaves "displaying" or "ack" without           *)
(* KeyboardInterrupt is a getch that returned: key' is the value read.     *)
(* A step that leaves "running" without KeyboardInterrupt is the end of    *)
(* the child: status' is its exit status.                                  *)
(***************************************************************************)
InSession == pc \in {"displaying", "running", "ack", "exited", "crashed"}

KeyRead == pc = "displaying" /\ error' # "KeyboardInterrupt"

ChildEnded == pc = "running" /\ error' # "KeyboardInterrupt"

AckRead == pc = "ack" /\ error' # "KeyboardInterrupt"

NoInvocation == ninvoked' = ninvoked /\ invoked' = invoked /\ child' = child

\* C1: in every state of run_menu, after any sequence of key presses,
\* 0 <= current_row <= len(menu) - 1.
C1_RowInRange ==
    InSession => current_row >= 0 /\ current_row <= Len(menu) - 1

\* C1 witness: Down was the last key read and the selection is on the
\* last row.
C1_Witness ==
    /\ pc = "displaying"
    /\ key = Read(249, KEY_DOWN)
    /\ current_row = Len(menu) - 1

\* C2: Enter read in "displaying" with the "Exit" item selected ends the
\* loop ("exited") and calls no action, in that step or in any later one.
C2_ExitWithoutAction ==
    [][ /\ ( /\ KeyRead
             /\ key'.code \in {KEY_ENTER, NEWLINE}
             /\ menu[current_row + 1].label = "Exit" )
           => pc' = "exited" /\ NoInvocation
        /\ pc = "exited" => pc' = "exited" /\ NoInvocation ]_vars

\* C2 witness: the loop was left by Enter on the Exit row, after an action
\* had run earlier in the session.
C2_Witness ==
    /\ pc = "exited"
    /\ key = Read(249, NEWLINE)
    /\ menu[current_row + 1].label = "Exit"
    /\ ninvoked = 1

\* C3: Escape read in "displaying" ends the loop from whatever row is
\* selected, and calls no action.
C3_EscapeExits ==
    [][ (KeyRead /\ key'.code = ESC)
        => /\ pc' = "exited"
           /\ NoInvocation
           /\ current_row' = current_row ]_vars

\* C3 witness: the loop was left by Escape with a row in the middle of the
\* menu selected.
C3_Witness ==
    /\ pc = "exited"
    /\ key = Read(249, ESC)
    /\ current_row = 7

\* C4 as stated: run_command never propagates an error to its caller,
\* for every argv command.
C4_NeverPropagates ==
    \A i \in 1..Len(results) : results[i].how = "returned"

\* C4 amended: run_command never propagates a non-zero exit status.  For
\* every argv command whose child is started it returns normally once the
\* child has ended, with no output of its own on status zero and with one
\* failure message naming the command and the status otherwise; a command
\* whose child cannot be started raises to the caller and prints nothing.
C4_PropagatesOnlySpawnErrors ==
    /\ \A i \in 1..Len(results) :
        LET r == results[i]
        IN IF SpawnError(r.command) = "none"
           THEN /\ r.how = "returned"
                /\ r.status \in ExitStatuses(r.command)
                /\ r.status = 0 => r.printed = <<>>
                /\ r.status # 0 =>
                      r.printed = <<FailureMessage(r.command, r.status)>>
           ELSE /\ r.how = "raised"
                /\ r.exc = SpawnError(r.command)
                /\ r.printed = <<>>
    /\ pc = "blocked" => child # <<>> /\ SpawnError(child[1]) = "none"

\* C4 witness: ["false"] has printed a failure message and returned, and a
\* command that cannot be started has raised.
C4_Witness ==
    /\ \E i \in 1..Len(results) :
          /\ results[i].command = <<"false">>
          /\ results[i].how = "returned"
          /\ results[i].printed = <<FailureMessage(<<"false">>, 1)>>
    /\ \E i \in 1..Len(results) :
          /\ results[i].command = <<"no-such-command">>
          /\ results[i].how = "raised"
    /\ \E i \in 1..Len(results) :
          /\ results[i].status = 0
          /\ results[i].printed = <<>>

\* C5: when the command of the action that is running ends, with a
\* non-zero status as with zero, the loop is neither left nor crashed: it
\* shows the prompt and waits for a key ("ack"), and the key read there
\* brings it back to "displaying".
C5_FailedCommandReturnsToMenu ==
    [][ /\ ChildEnded
           => /\ pc' = "ack"
              /\ error' = "none"
              /\ term' = "held"
              /\ screen' = PromptScreen(screen.label)
              /\ UNCHANGED <<menu, current_row, ninvoked, invoked>>
        /\ AckRead
           => /\ pc' = "displaying"
              /\ error' = "none"
              /\ term' = "held" ]_vars

\* C5 witness: the loop is back in "displaying" after the acknowledgment
\* of an action whose command ended with status 1.
C5_Witness ==
    /\ pc = "displaying"
    /\ key.at = 263
    /\ status = 1
    /\ error = "none"

\* C6: the terminal is acquired before the first frame is drawn, held in
\* every state of the loop, and released however the loop ends (Exit,
\* Escape, an exception).
C6_TerminalOwned ==
    /\ term = "free" /\ pc = "start" => screen = Blank
    /\ pc \in {"setup", "displaying", "running", "ack"} => term = "held"
    /\ pc \in {"exited", "crashed"} => term = "free"

\* C6 witness: an exception ended the loop while an action was running,
\* and the terminal is released.
C6_Witness ==
    /\ pc = "crashed"
    /\ error = "KeyboardInterrupt"
    /\ screen.kind = "running"
    /\ term = "free"

\* C7: in "displaying", Up moves the selection by exactly -1 above row 0
\* and leaves it at row 0; Down moves it by exactly +1 below the last row
\* and leaves it at the last row; both stay in "displaying" and call no
\* action.
C7_UpDownStep ==
    [][ /\ (KeyRead /\ key'.code = KEY_UP)
           => /\ current_row' =
                    IF current_row > 0 THEN current_row - 1 ELSE current_row
              /\ pc' = "displaying"
              /\ NoInvocation
        /\ (KeyRead /\ key'.code = KEY_DOWN)
           => /\ current_row' =
                    IF current_row < Len(menu) - 1 THEN current_row + 1
                    ELSE current_row
              /\ pc' = "displaying"
              /\ NoInvocation ]_vars

\* C7 witness: Up was the last key read and the selection is on row 1
\* (reached from row 2, itself two Downs from row 0).
C7_Witness ==
    /\ pc = "displaying"
    /\ key = Read(249, KEY_UP)
    /\ current_row = 1

\* C8: Enter on an item that is not Exit calls the action of the selected
\* item, and no other, once; no key is read until its command has ended;
\* then exactly one key is read, and the loop is back in "displaying" with
\* the selection it had before Enter.
C8_EnterSequence ==
    [][ /\ ( /\ KeyRead
             /\ key'.code \in {KEY_ENTER, NEWLINE}
             /\ menu[current_row + 1].label # "Exit" )
           => /\ pc' = "running"
              /\ ninvoked' = ninvoked + 1
              /\ invoked' = menu[current_row + 1].action
              /\ child' = ActionCommands(menu[current_row + 1].action)
              /\ current_row' = current_row
        /\ pc = "running"
           => /\ key' = key
              /\ ninvoked' = ninvoked
              /\ invoked' = invoked
              /\ current_row' = current_row
        /\ ChildEnded => pc' = "ack" /\ child' = <<>>
        /\ AckRead
           => /\ pc' = "displaying"
              /\ key'.at = 263
              /\ NoInvocation
              /\ current_row' = current_row ]_vars

\* C8 witness: the loop is back in "displaying" on row 2 after the
\* acknowledgment of the action of row 2, the second action of the session.
C8_Witness ==
    /\ pc = "displaying"
    /\ key.at = 263
    /\ current_row = 2
    /\ invoked = "start_langfuse"
    /\ ninvoked = 2

\* C9: the key that acknowledges the prompt, whichever it is, changes no
\* selection, calls no action and does not end the loop; the loop is left
\* by a break only from "displaying".
C9_AckKeyNotInterpreted ==
    [][ /\ AckRead
           => /\ pc' = "displaying"
              /\ current_row' = current_row
              /\ NoInvocation
              /\ term' = "held"
        /\ (pc # "exited" /\ pc' = "exited") => pc = "displaying" ]_vars

\* C9 witness: Escape acknowledged the prompt and the loop is displaying
\* the menu.
C9_Witness ==
    /\ pc = "displaying"
    /\ key = Read(263, ESC)
    /\ term = "held"

\* C10: in "displaying", a key that is none of Up, Down, Enter, Escape
\* leaves the selection as it is, calls no action and stays in
\* "displaying"; and no step of the session changes the menu, which is the
\* list _build_menu returns, "Exit" last.
C10_OtherKeysAndMenuFrame ==
    /\ [](InSession => /\ menu = _build_menu
                       /\ menu[Len(menu)].label = "Exit"
                       /\ \A i \in 1..(Len(menu) - 1) : menu[i].label # "Exit")
    /\ [][ /\ ( /\ KeyRead
                /\ key'.code \notin {KEY_UP, KEY_DOWN, KEY_ENTER, NEWLINE, ESC} )
              => /\ pc' = "displaying"
                 /\ current_row' = current_row
                 /\ NoInvocation
           /\ InSession => menu' = menu ]_vars

\* C10 witness: KEY_RESIZE was the last key read, on row 3, after an
\* action had run.
C10_Witness ==
    /\ pc = "displaying"
    /\ key = Read(249, 410)
    /\ current_row = 3
    /\ ninvoked = 1

====
